---- MODULE Spec2Model ----
(***************************************************************************)
(* A model of videoke (src/videoke/main.py): the music and background      *)
(* selectors with their process-wide selection memory, the VideoPlayer     *)
(* playback session (play / stop) and the main event loop that owns it.    *)
(***************************************************************************)
EXTENDS Integers, Sequences, FiniteSets, TLC

(* ------------------------------ bounds -------------------------------- *)
MaxFiles == 2       \* matching file stems a directory may hold
MaxFrames == 2      \* frames a decoder yields before it can only report eof
MaxDelay == 1       \* largest presentation delay a frame carries (clock units)
MaxTime == 2        \* the clock stops advancing here
MaxSessions == 2    \* VideoPlayer objects constructed in one run
MaxEvents == 2      \* events delivered by one pygame.event.get() batch

(* ------------------------------ values -------------------------------- *)
\* Python's None; a record, so that it compares (unequal) with every value
None == [none |-> TRUE]

\* Python's True and False
PyTrue == [bool |-> TRUE]
PyFalse == [bool |-> FALSE]

\* bool(v) of the values a flag takes
Truthy(v) == v = PyTrue

\* no exception is propagating
NoExc == "NoExc"

\* the directories the program reads
DataMusic == "DATADIR/music"
UserMusic == "USERDATA/music"
Backgrounds == "DATADIR/backgrounds"
\* OPTIONS.MUSICDIR, at its default
MUSICDIR == DataMusic
Dirs == {DataMusic, UserMusic, Backgrounds}

\* str.lower() on the extensions that occur
Lower(e) ==
    CASE e = "MP4" -> "mp4"
      [] e = "JPG" -> "jpg"
      [] OTHER -> e

\* extension(filepath): the lowercased extension of a file name
extension(f) == Lower(f.ext)

\* os.path.join(dir, f)
Join(d, f) == [dir |-> d, file |-> f]

\* file names that may lie in a music directory: stem 0 is not a video
MusicNames ==
    {[stem |-> i, ext |-> (IF i = 0 THEN "txt" ELSE IF i % 2 = 1 THEN "mp4" ELSE "MP4")] :
        i \in 0..MaxFiles}

\* file names that may lie in the backgrounds directory: stem 0 is not an image
BgNames ==
    {[stem |-> i, ext |-> (IF i = 0 THEN "txt" ELSE IF i % 2 = 1 THEN "png" ELSE "JPG")] :
        i \in 0..MaxFiles}

\* a directory: whether it exists, and the names os.listdir yields
DirStates(names) ==
    {[isdir |-> FALSE, files |-> {}]} \cup {[isdir |-> TRUE, files |-> s] : s \in SUBSET names}

\* a Python str
Str(s) == [str |-> s]

\* the pixel formats a decoded frame may report
PixFmts == {Str("rgb24"), Str("yuv420p")}

\* the delays get_frame() attaches to a frame
Delays == (0 - 1)..MaxDelay

\* the `screen` surface, as the reference a VideoPlayer keeps
ScreenRef == [ref |-> "screen"]

VARIABLES
    disk,                \* directory -> [isdir, files]: the installed files (fixed)
    last_music,          \* _last_music
    current_background,  \* _current_background
    screen,              \* contents of the display surface: [bg, top]
    raised,              \* exception that left the last call, or NoExc
    musicRet,            \* history: the value random_music returned last
    musicRepeat,         \* history: that value against the one returned before it:
                         \* "none" (no call yet), "first", "same" or "differs"
    bgDrawn,             \* history: the background random_background drew last
    bgRepeat,            \* history: that background against the one drawn before it
    player,              \* main's `player`: None or the VideoPlayer object
    opened,              \* number of ff.MediaPlayer objects constructed
    closeCalls,          \* decoder handle -> number of close_player() calls
    fetched,             \* frames get_frame() has returned in the current session
    now,                 \* time.time()
    called,              \* the VideoPlayer method the last step called, or "none"
    ret,                 \* what play() returned, if the last step called it
    outcome,             \* the branch play() took, if the last step called it
    blits,               \* number of frames the current session has blitted
    shown,               \* history: ids of the frames displayed, in order
    due,                 \* history: when the pending frame left the decoder, plus its delay
    trueReturns,         \* history: number of True returns of play()
    endedBy,             \* history: what finished the session: "eof", "error", "stop"
    fault,               \* the display step of the last step met a failing conversion/render
    pc,                  \* position of main: "start", "loop", "exited", "crashed"
    done,                \* main's `done`
    dirty,               \* main's `dirty`
    batch,               \* events handled so far in the current batch
    flipped,             \* the last step called pygame.display.update()
    picking,             \* the `while True` loop that is running: "none", "music", "background"
    pick                 \* the candidate that loop drew and rejected last, or None

selVars == <<last_music, current_background>>
histVars == <<musicRet, musicRepeat, bgDrawn, bgRepeat>>
vpVars == <<player, closeCalls, fetched, called, ret, outcome, blits, shown,
            due, trueReturns, endedBy, fault>>
mainVars == <<pc, done, dirty, batch, flipped>>
loopVars == <<picking, pick>>
vars == <<disk, selVars, histVars, screen, raised, vpVars, opened, now, mainVars, loopVars>>

(* ---------------------------- the selectors --------------------------- *)
\* os.listdir(mdir) if os.path.isdir(mdir) else [], filtered on 'mp4'
MusicIn(d) == {f \in (IF disk[d].isdir THEN disk[d].files ELSE {}) : extension(f) = "mp4"}

\* the directories random_music scans, in order
MusicDirSeq == <<DataMusic, UserMusic, MUSICDIR>>

\* the dict after the i first music.update() calls: file name -> full path
RECURSIVE MusicUpTo(_)
MusicUpTo(i) ==
    IF i = 0 THEN [f \in {} |-> None]
    ELSE LET prev == MusicUpTo(i - 1)
             here == MusicIn(MusicDirSeq[i])
         IN  [f \in (DOMAIN prev) \cup here |->
                 IF f \in here THEN Join(MusicDirSeq[i], f) ELSE prev[f]]

\* the `music` dict of random_music
Music == MusicUpTo(Len(MusicDirSeq))

\* every path _last_music may hold
MusicMemory == {None} \cup {Join(d, f) : d \in Dirs \ {Backgrounds}, f \in MusicNames}

\* every path _current_background may hold
BgMemory == {None} \cup {Join(Backgrounds, f) : f \in BgNames}

\* a loop test written with == for !=
LoopAccepts_Equal(candidate, memory) == candidate = memory

\* the test that ends the `while True` loop of a selector
LoopAccepts(candidate, memory) == candidate # memory

\* the keys the selection of random_music can end on
MusicChoices(music, last) ==
    IF Cardinality(DOMAIN music) = 1 THEN DOMAIN music
    ELSE {video \in DOMAIN music : LoopAccepts(video, last)}

\* how a selection compares with the one before it
Versus(new, old) == IF old = None THEN "first" ELSE IF new = old THEN "same" ELSE "differs"

\* random_music() remembers the path of the chosen `video` and returns it
ReturnMusic(video) ==
    /\ last_music' = Music[video]
    /\ musicRet' = Music[video]
    /\ musicRepeat' = Versus(Music[video], musicRet)
    /\ raised' = NoExc

\* random_music(): returns through musicRet, raises through `raised`
random_music ==
    IF DOMAIN Music = {}
    THEN /\ raised' = "FileNotFoundError"
         /\ UNCHANGED <<last_music, musicRet, musicRepeat>>
    ELSE \E video \in MusicChoices(Music, last_music) : ReturnMusic(video)

\* the `bgs` tuple of random_background
Bgs == {Join(Backgrounds, f) : f \in {g \in disk[Backgrounds].files :
                                        extension(g) \in {"bmp", "jpg", "jpeg", "png"}}}

\* a selection that forgets to exclude the background on display
BgChoices_NoExclusion(bgs, current) == bgs

\* a selection without the special case for a single background
BgChoices_NoSingleCase(bgs, current) == {bg \in bgs : bg # current}

\* the backgrounds the selection of random_background can end on
BgChoices(bgs, current) ==
    IF Cardinality(bgs) = 1 THEN bgs
    ELSE {bg \in bgs : LoopAccepts(bg, current)}

\* random_background() fills the surface, draws the chosen `bg`, remembers it
DrawBackground(bg) ==
    \/ /\ screen' = [bg |-> bg, top |-> None]
       /\ current_background' = bg
       /\ bgDrawn' = bg
       /\ bgRepeat' = Versus(bg, bgDrawn)
       /\ raised' = NoExc
    \/ \* load_image() fails after surface.fill()
       /\ screen' = [bg |-> None, top |-> None]
       /\ raised' = "pygame.error"
       /\ UNCHANGED <<current_background, bgDrawn, bgRepeat>>

\* random_background(surface)
random_background ==
    IF ~disk[Backgrounds].isdir
    THEN /\ raised' = "FileNotFoundError"
         /\ UNCHANGED <<screen, current_background, bgDrawn, bgRepeat>>
    ELSE IF Bgs = {}
    THEN /\ raised' = NoExc
         /\ UNCHANGED <<screen, current_background, bgDrawn, bgRepeat>>
    ELSE \E bg \in BgChoices(Bgs, current_background) : DrawBackground(bg)

(* ---------------------------- VideoPlayer ----------------------------- *)
\* VideoPlayer._fmt_map
fmt_map == (Str("rgb24") :> Str("RGB")) @@ (None :> Str("RGB"))

\* dict.get(key, default)
DictGet(d, key, default) == IF key \in DOMAIN d THEN d[key] ELSE default

\* the format play() hands to pygame.image.frombuffer
FrameFormat(image) == DictGet(fmt_map, image.fmt, None)

\* the format strings pygame.image.frombuffer accepts; anything else raises
FrombufferFormats ==
    {Str("P"), Str("RGB"), Str("BGR"), Str("BGRA"), Str("RGBX"), Str("RGBA"), Str("ARGB")}

\* VideoPlayer.__init__(path, surface) around decoder handle h
NewVideoPlayer(h) ==
    [player |-> [h |-> h], surface |-> ScreenRef, image |-> None, wait |-> 0,
     finished |-> FALSE]

\* a stop() that never closes the decoder
Closed_Never(vp, cc) == cc

\* the close_player() calls after stop() on vp
Closed(vp, cc) ==
    IF vp.player # None THEN [cc EXCEPT ![vp.player.h] = @ + 1] ELSE cc

\* a stop() that keeps its decoder reference
Stopped_KeepsPlayer(vp) ==
    [vp EXCEPT !.surface = None, !.image = None, !.wait = 0, !.finished = TRUE]

\* a stop() that forgets the finished flag
Stopped_NotFinished(vp) ==
    [vp EXCEPT !.player = None, !.surface = None, !.image = None, !.wait = 0]

\* the fields of vp after stop()
Stopped(vp) ==
    [vp EXCEPT !.player = None, !.surface = None, !.image = None, !.wait = 0,
               !.finished = TRUE]

\* a check that never finds it too early
TooEarly_Never(vp, t) == FALSE

\* time.time() < self.wait
TooEarly(vp, t) == t < vp.wait

\* a play() that reports a frame it only scheduled
PlayReturn_TrueWhenScheduled(o) == IF o \in {"displayed", "scheduled"} THEN PyTrue ELSE None

\* what play() returns on each of its branches
PlayReturn(o) == IF o = "displayed" THEN PyTrue ELSE None

\* a display step that keeps the frame it has shown
AfterDisplay_KeepsImage(vp) == vp

\* the fields of vp after a successful display
AfterDisplay(vp) == [vp EXCEPT !.image = None]

\* an error handler that only logs
AfterError_LogOnly(vp) == vp

\* the fields of vp after the except clause of play()
AfterError(vp) == Stopped(vp)

\* the step called no method of a VideoPlayer and did not update the display
NoCall ==
    /\ called' = "none"
    /\ flipped' = FALSE
    /\ ret' = None
    /\ outcome' = "none"
    /\ fault' = FALSE

\* bookkeeping shared by the steps that end the session
EndSession(vp, why) ==
    /\ closeCalls' = Closed(vp, closeCalls)
    /\ endedBy' = (IF vp.finished THEN endedBy ELSE why)
    /\ due' = 0

\* play(): the display step on `image` (the try block and what follows it)
Display(vp, image) ==
    \E f \in BOOLEAN :
        /\ fault' = f
        /\ IF FrameFormat(image) \in FrombufferFormats /\ ~f
           THEN /\ player' = AfterDisplay([vp EXCEPT !.image = image])
                /\ screen' = [screen EXCEPT !.top = [session |-> vp.player.h, id |-> image.id]]
                /\ blits' = blits + 1
                /\ shown' = Append(shown, image.id)
                /\ trueReturns' = trueReturns + 1
                /\ outcome' = "displayed"
                /\ ret' = PlayReturn("displayed")
                /\ due' = 0
                /\ UNCHANGED <<closeCalls, endedBy>>
           ELSE /\ player' = AfterError([vp EXCEPT !.image = image])
                /\ EndSession(vp, "error")
                /\ outcome' = "error"
                /\ ret' = PlayReturn("error")
                /\ UNCHANGED <<screen, blits, shown, trueReturns>>

\* play() returns at once on branch o
PlayNoOp(o) ==
    /\ outcome' = o
    /\ ret' = PlayReturn(o)
    /\ fault' = FALSE
    /\ UNCHANGED <<player, closeCalls, fetched, blits, shown, due, trueReturns, endedBy,
                   screen, now>>

\* player.play() on the object held in `player`
play ==
    LET vp == player IN
    /\ called' = "play"
    /\ IF vp.player = None
       THEN PlayNoOp("noplayer")
       ELSE IF vp.image # None
       THEN IF TooEarly(vp, now)
            THEN PlayNoOp("waiting")
            ELSE /\ Display(vp, vp.image)
                 /\ UNCHANGED <<fetched, now>>
       ELSE \* self.player.get_frame()
            \/ \* (None, 'eof')
               /\ player' = Stopped(vp)
               /\ EndSession(vp, "eof")
               /\ outcome' = "eof"
               /\ ret' = PlayReturn("eof")
               /\ fault' = FALSE
               /\ UNCHANGED <<fetched, blits, shown, trueReturns, screen, now>>
            \/ \* (None, val): no frame yet
               PlayNoOp("underrun")
            \/ \* (frame, val)
               /\ fetched < MaxFrames
               /\ \E fmt \in PixFmts, val \in Delays :
                    LET image == [id |-> fetched + 1, fmt |-> fmt] IN
                    /\ fetched' = fetched + 1
                    /\ IF val > 0
                       THEN \E t \in {u \in {now, now + 1} : u <= MaxTime} :
                              /\ now' = t
                              /\ player' = [vp EXCEPT !.image = image, !.wait = t + val]
                              /\ due' = now + val
                              /\ outcome' = "scheduled"
                              /\ ret' = PlayReturn("scheduled")
                              /\ fault' = FALSE
                              /\ UNCHANGED <<closeCalls, blits, shown, trueReturns,
                                             endedBy, screen>>
                       ELSE /\ Display(vp, image)
                            /\ UNCHANGED now

\* player.stop() on the object held in `player`
stop ==
    /\ called' = "stop"
    /\ ret' = None
    /\ outcome' = "none"
    /\ fault' = FALSE
    /\ player' = Stopped(player)
    /\ EndSession(player, "stop")
    /\ UNCHANGED <<fetched, blits, shown, trueReturns, screen, now>>

\* the clock moves on while the loop runs
Advance ==
    /\ pc = "loop"
    /\ now < MaxTime
    /\ now' = now + 1
    /\ NoCall
    /\ UNCHANGED <<loopVars, disk, selVars, histVars, screen, raised, opened, pc, done, dirty, batch,
                   player, closeCalls, fetched, blits, shown, due, trueReturns, endedBy>>

(* ------------------- the selectors, called in sequence ---------------- *)
InitDisk ==
    \E dm \in DirStates(MusicNames), um \in DirStates(MusicNames), bg \in DirStates(BgNames) :
        disk = (DataMusic :> dm) @@ (UserMusic :> um) @@ (Backgrounds :> bg)

InitRest ==
    /\ last_music = None
    /\ current_background = None
    /\ screen = [bg |-> None, top |-> None]
    /\ raised = NoExc
    /\ musicRet = None
    /\ musicRepeat = "none"
    /\ bgDrawn = None
    /\ bgRepeat = "none"
    /\ player = None
    /\ opened = 0
    /\ closeCalls = [h \in 1..MaxSessions |-> 0]
    /\ fetched = 0
    /\ now = 0
    /\ called = "none"
    /\ ret = None
    /\ outcome = "none"
    /\ blits = 0
    /\ shown = << >>
    /\ due = 0
    /\ trueReturns = 0
    /\ endedBy = "none"
    /\ fault = FALSE
    /\ pc = "start"
    /\ done = FALSE
    /\ dirty = PyTrue
    /\ batch = 0
    /\ flipped = FALSE
    /\ picking = "none"
    /\ pick = None

InitSelect == InitDisk /\ InitRest

CallRandomMusic ==
    /\ raised = NoExc
    /\ random_music
    /\ UNCHANGED <<loopVars, disk, current_background, bgDrawn, bgRepeat, screen, vpVars, opened, now, mainVars>>

CallRandomBackground ==
    /\ raised = NoExc
    /\ random_background
    /\ UNCHANGED <<loopVars, disk, last_music, musicRet, musicRepeat, vpVars, opened, now, mainVars>>

NextSelect == CallRandomMusic \/ CallRandomBackground

SpecSelect == InitSelect /\ [][NextSelect]_vars

(* -------------- the selectors, one loop iteration per step ------------ *)
\* any installed files, before the first call
InitLoop ==
    /\ \E dm \in DirStates(MusicNames), bg \in DirStates(BgNames) :
          disk = (DataMusic :> dm) @@ (UserMusic :> [isdir |-> FALSE, files |-> {}])
                 @@ (Backgrounds :> bg)
    /\ InitRest

\* random_music() up to its `while True`
BeginMusic ==
    /\ picking = "none"
    /\ raised = NoExc
    /\ pick' = None
    /\ IF DOMAIN Music = {}
       THEN /\ raised' = "FileNotFoundError"
            /\ picking' = "none"
            /\ UNCHANGED <<last_music, musicRet, musicRepeat>>
       ELSE IF Cardinality(DOMAIN Music) = 1
       THEN /\ \E video \in DOMAIN Music : ReturnMusic(video)
            /\ picking' = "none"
       ELSE /\ picking' = "music"
            /\ UNCHANGED <<last_music, musicRet, musicRepeat, raised>>
    /\ UNCHANGED <<disk, current_background, bgDrawn, bgRepeat, screen, vpVars, opened, now, mainVars>>

\* one iteration of the loop of random_music() in which random.choice gives `video`
IterMusicOf(video) ==
    /\ picking = "music"
    /\ video \in DOMAIN Music
    /\ IF LoopAccepts(video, last_music)
       THEN /\ ReturnMusic(video)
            /\ picking' = "none"
            /\ pick' = pick
       ELSE /\ pick' = video
            /\ UNCHANGED <<picking, last_music, musicRet, musicRepeat, raised>>
    /\ UNCHANGED <<disk, current_background, bgDrawn, bgRepeat, screen, vpVars, opened, now, mainVars>>

IterMusic == \E video \in MusicNames : IterMusicOf(video)

\* random_background() up to its `while True`
BeginBackground ==
    /\ picking = "none"
    /\ raised = NoExc
    /\ pick' = None
    /\ IF ~disk[Backgrounds].isdir
       THEN /\ raised' = "FileNotFoundError"
            /\ picking' = "none"
            /\ UNCHANGED <<screen, current_background, bgDrawn, bgRepeat>>
       ELSE IF Bgs = {}
       THEN /\ picking' = "none"
            /\ UNCHANGED <<screen, current_background, bgDrawn, bgRepeat, raised>>
       ELSE IF Cardinality(Bgs) = 1
       THEN /\ \E bg \in Bgs : DrawBackground(bg)
            /\ picking' = "none"
       ELSE /\ picking' = "background"
            /\ UNCHANGED <<screen, current_background, bgDrawn, bgRepeat, raised>>
    /\ UNCHANGED <<disk, last_music, musicRet, musicRepeat, vpVars, opened, now, mainVars>>

\* one iteration of the loop of random_background() in which random.choice gives `bg`
IterBackgroundOf(bg) ==
    /\ picking = "background"
    /\ bg \in Bgs
    /\ IF LoopAccepts(bg, current_background)
       THEN /\ DrawBackground(bg)
            /\ picking' = "none"
            /\ pick' = pick
       ELSE /\ pick' = bg
            /\ UNCHANGED <<picking, screen, current_background, bgDrawn, bgRepeat, raised>>
    /\ UNCHANGED <<disk, last_music, musicRet, musicRepeat, vpVars, opened, now, mainVars>>

IterBackground == \E bg \in BgMemory \ {None} : IterBackgroundOf(bg)

NextLoop == BeginMusic \/ IterMusic \/ BeginBackground \/ IterBackground

\* random.choice is fair: a loop that keeps running draws every entry again and again
FairChoice ==
    /\ \A video \in MusicNames : SF_vars(IterMusicOf(video))
    /\ \A bg \in BgMemory \ {None} : SF_vars(IterBackgroundOf(bg))

SpecLoop == InitLoop /\ [][NextLoop]_vars /\ FairChoice


(* ------------------ one VideoPlayer, driven directly ------------------ *)
\* a VideoPlayer has just been constructed on the one installed video
InitPlayer ==
    /\ disk = (DataMusic :> [isdir |-> TRUE, files |-> {[stem |-> 1, ext |-> "mp4"]}])
              @@ (UserMusic :> [isdir |-> FALSE, files |-> {}])
              @@ (Backgrounds :> [isdir |-> TRUE, files |-> {}])
    /\ last_music = Join(DataMusic, [stem |-> 1, ext |-> "mp4"])
    /\ current_background = None
    /\ screen = [bg |-> None, top |-> None]
    /\ raised = NoExc
    /\ musicRet = Join(DataMusic, [stem |-> 1, ext |-> "mp4"])
    /\ musicRepeat = "first"
    /\ bgDrawn = None
    /\ bgRepeat = "none"
    /\ player = NewVideoPlayer(1)
    /\ opened = 1
    /\ closeCalls = [h \in 1..MaxSessions |-> 0]
    /\ fetched = 0
    /\ now = 0
    /\ called = "none"
    /\ ret = None
    /\ outcome = "none"
    /\ blits = 0
    /\ shown = << >>
    /\ due = 0
    /\ trueReturns = 0
    /\ endedBy = "none"
    /\ fault = FALSE
    /\ pc = "loop"
    /\ done = FALSE
    /\ dirty = PyFalse
    /\ batch = 0
    /\ flipped = FALSE
    /\ picking = "none"
    /\ pick = None

CallPlay ==
    /\ play
    /\ UNCHANGED <<loopVars, disk, selVars, histVars, raised, opened, mainVars>>

CallStop ==
    /\ stop
    /\ UNCHANGED <<loopVars, disk, selVars, histVars, raised, opened, mainVars>>

NextPlayer == CallPlay \/ CallStop \/ Advance

SpecPlayer == InitPlayer /\ [][NextPlayer]_vars

(* ------------------------------ main() -------------------------------- *)
\* a directory holding the names of stem 0..k
DirUpTo(names, k) == [isdir |-> TRUE, files |-> {f \in names : f.stem <= k}]

\* an absent directory
NoDir == [isdir |-> FALSE, files |-> {}]

\* the installs main() is run on: the data music directory holds a non-video
\* and 0..MaxFiles videos, the user music directory is absent, the backgrounds
\* directory is absent or holds a non-image and 0..MaxFiles images, and at
\* most one of the two catalogs has more than one entry
InitMain ==
    /\ \E m \in 0..MaxFiles, b \in (0 - 1)..MaxFiles :
          /\ m <= 1 \/ b <= 1
          /\ disk = (DataMusic :> DirUpTo(MusicNames, m)) @@ (UserMusic :> NoDir)
                    @@ (Backgrounds :> (IF b < 0 THEN NoDir ELSE DirUpTo(BgNames, b)))
    /\ InitRest

\* an except clause that catches nothing
Caught_Nothing(exc) == FALSE

\* except FileNotFoundError around random_music() and VideoPlayer()
Caught(exc) == exc = "FileNotFoundError"

\* a session step that never sees the session finished
has_finished_Never(vp) == FALSE

\* player.finished, as main reads it
has_finished(vp) == vp.finished

\* a session step that keeps a redraw request: dirty = dirty or player.play()
DirtyAfterPlay_KeepsRequest(d, r) == IF Truthy(d) THEN d ELSE r

\* dirty = player.play()
DirtyAfterPlay(d, r) == r

\* the first random_background(screen), before the loop
Startup ==
    /\ pc = "start"
    /\ random_background
    /\ pc' = (IF raised' = NoExc THEN "loop" ELSE "crashed")
    /\ NoCall
    /\ UNCHANGED <<loopVars, disk, last_music, musicRet, musicRepeat, opened, now, done, dirty, batch,
                   player, closeCalls, fetched, blits, shown, due, trueReturns, endedBy>>

\* the for loop is about to handle one more event of the batch
AtEvent ==
    /\ pc = "loop"
    /\ batch < MaxEvents
    /\ batch' = batch + 1

\* QUIT, right button up, or Escape up
EvQuit ==
    /\ AtEvent
    /\ done' = TRUE
    /\ NoCall
    /\ UNCHANGED <<loopVars, disk, selVars, histVars, screen, raised, opened, now, pc, dirty,
                   player, closeCalls, fetched, blits, shown, due, trueReturns, endedBy>>

\* left button up, or Space up
EvBackground_StopsSession ==
    /\ AtEvent
    /\ random_background
    /\ IF raised' = NoExc
       THEN dirty' = PyTrue /\ pc' = pc
       ELSE dirty' = dirty /\ pc' = "crashed"
    /\ NoCall
    /\ IF player # None
       THEN player' = Stopped(player) /\ EndSession(player, "stop")
       ELSE UNCHANGED <<player, closeCalls, endedBy, due>>
    /\ UNCHANGED <<loopVars, disk, last_music, musicRet, musicRepeat, opened, now, done,
                   fetched, blits, shown, trueReturns>>

\* left button up, or Space up
EvBackground ==
    /\ AtEvent
    /\ random_background
    /\ IF raised' = NoExc
       THEN dirty' = PyTrue /\ pc' = pc
       ELSE dirty' = dirty /\ pc' = "crashed"
    /\ NoCall
    /\ UNCHANGED <<loopVars, disk, last_music, musicRet, musicRepeat, opened, now, done,
                   player, closeCalls, fetched, blits, shown, due, trueReturns, endedBy>>

\* Return up
EvEnter ==
    /\ AtEvent
    /\ IF player # None
       THEN /\ stop
            /\ flipped' = FALSE
            /\ UNCHANGED <<selVars, histVars, raised, opened, pc>>
       ELSE /\ DOMAIN Music # {} => opened < MaxSessions
            /\ random_music
            /\ NoCall
            /\ IF raised' = NoExc
               THEN /\ opened' = opened + 1
                    /\ player' = NewVideoPlayer(opened + 1)
                    /\ fetched' = 0
                    /\ blits' = 0
                    /\ shown' = << >>
                    /\ trueReturns' = 0
                    /\ endedBy' = "none"
                    /\ due' = 0
                    /\ pc' = pc
               ELSE \* except FileNotFoundError: log.error(e)
                    /\ pc' = (IF Caught(raised') THEN pc ELSE "crashed")
                    /\ UNCHANGED <<opened, player, fetched, blits, shown, trueReturns,
                                   endedBy, due>>
            /\ UNCHANGED <<current_background, bgDrawn, bgRepeat, closeCalls, screen, now>>
    /\ UNCHANGED <<loopVars, disk, done, dirty>>

\* any other event
EvOther ==
    /\ AtEvent
    /\ NoCall
    /\ UNCHANGED <<loopVars, disk, selVars, histVars, screen, raised, opened, now, pc, done, dirty,
                   player, closeCalls, fetched, blits, shown, due, trueReturns, endedBy>>

\* the rest of the loop body once the batch is handled, and the loop test
TickStep ==
    /\ pc = "loop"
    /\ batch' = 0
    /\ IF player # None
       THEN IF has_finished(player)
            THEN /\ player' = None
                 /\ random_background
                 /\ called' = "none" /\ ret' = None /\ outcome' = "none" /\ fault' = FALSE
                 /\ IF raised' = NoExc
                    THEN /\ flipped' = TRUE
                         /\ dirty' = PyFalse
                         /\ pc' = (IF done THEN "exited" ELSE "loop")
                    ELSE /\ flipped' = FALSE
                         /\ dirty' = dirty
                         /\ pc' = "crashed"
                 /\ UNCHANGED <<closeCalls, fetched, blits, shown, due, trueReturns,
                                endedBy, now>>
            ELSE /\ play
                 /\ flipped' = Truthy(DirtyAfterPlay(dirty, ret'))
                 /\ dirty' = PyFalse
                 /\ pc' = (IF done THEN "exited" ELSE "loop")
                 /\ UNCHANGED <<current_background, bgDrawn, bgRepeat, raised>>
       ELSE /\ flipped' = Truthy(dirty)
            /\ dirty' = PyFalse
            /\ pc' = (IF done THEN "exited" ELSE "loop")
            /\ called' = "none" /\ ret' = None /\ outcome' = "none" /\ fault' = FALSE
            /\ UNCHANGED <<current_background, bgDrawn, bgRepeat, raised, screen, player, closeCalls,
                           fetched, blits, shown, due, trueReturns, endedBy, now>>
    /\ UNCHANGED <<loopVars, disk, last_music, musicRet, musicRepeat, opened, done>>

Init == InitMain

Next == Startup \/ EvQuit \/ EvBackground \/ EvEnter \/ EvOther \/ TickStep \/ Advance

Spec == Init /\ [][Next]_vars

\* the decoders that have been opened and not closed
OpenDecoders == {h \in 1..opened : closeCalls[h] = 0}

\* C1: at most one session holds an open decoder at any time; when main holds
\* a VideoPlayer with a decoder, that decoder is the open one, and a new
\* VideoPlayer is constructed only when every earlier decoder is closed.
C1_AtMostOneOpenDecoder ==
    /\ [](Cardinality(OpenDecoders) <= 1)
    /\ []((player # None /\ player.player # None) => OpenDecoders = {player.player.h})
    /\ [][opened' = opened + 1 => OpenDecoders = {}]_vars

\* a second session is playing after the first one's decoder was closed
C1_Witness ==
    /\ opened = 2 /\ closeCalls[1] = 1 /\ closeCalls[2] = 0
    /\ player # None /\ player.player = [h |-> 2]

\* C2: with a catalog of at least two entries, no two consecutive calls of
\* random_music return the same music file.
C2_NoImmediateRepeatMusic ==
    Cardinality(DOMAIN Music) >= 2 => musicRepeat # "same"

\* C3: with a catalog of at least two entries, no two consecutive calls of
\* random_background draw the same image, and _current_background is always
\* the background drawn last.
C3_NoImmediateRepeatBackground ==
    /\ Cardinality(Bgs) >= 2 => bgRepeat # "same"
    /\ current_background = bgDrawn

\* a background has been drawn over another one, from a catalog of at least two
C3_Witness ==
    /\ Cardinality(Bgs) >= 2 /\ bgRepeat = "differs" /\ raised = NoExc
    /\ screen.bg = bgDrawn

\* the session holds a frame it has scheduled
Pending == player # None /\ player.image # None

\* the sequence 1, 2, ..., n
Iota(n) == [i \in 1..n |-> i]

\* C4: a frame that left the decoder at time t with delay d > 0 is not
\* displayed before t + d, and every play() made while the clock is below
\* that deadline displays nothing, fetches nothing and leaves the session as
\* it was.
C4_NotBeforeDeadline ==
    [][/\ (Pending /\ blits' # blits) => now' >= due
       /\ (called' = "play" /\ Pending /\ now < due)
            => (/\ ~Truthy(ret')
                /\ UNCHANGED <<player, fetched, blits, shown, screen, closeCalls>>)]_vars

\* the first frame of a session came with a positive delay and has been
\* displayed, its deadline reached
C4_Witness ==
    /\ outcome = "displayed" /\ fetched = 1 /\ shown = <<1>>
    /\ player.wait > 0 /\ now >= player.wait

\* C5: absent stop() and render errors, the frames the decoder returned are
\* displayed once each and in decoder order, at most one of them is pending
\* (none is requested while one is), and at end-of-stream the n frames of the
\* stream have produced exactly n True returns.
C5_EachFrameOnceInOrder ==
    /\ endedBy = "none" =>
          /\ shown = Iota(fetched - (IF player.image # None THEN 1 ELSE 0))
          /\ trueReturns = Len(shown)
    /\ endedBy = "eof" => (shown = Iota(fetched) /\ trueReturns = fetched)

\* a stream of MaxFrames frames has been played to its end
C5_Witness ==
    endedBy = "eof" /\ fetched = MaxFrames /\ trueReturns = MaxFrames

\* C6: play() returns a true value exactly in the calls that blit a frame;
\* on every other branch it returns a false value and leaves the surface alone.
C6_TrueOnlyWhenBlitted ==
    [][called' = "play" =>
          /\ Truthy(ret') <=> (blits' = blits + 1)
          /\ outcome' # "displayed" => (~Truthy(ret') /\ blits' = blits /\ screen' = screen)
          /\ outcome' = "displayed" => screen'.top # screen.top]_vars

\* play() has returned True for a frame it blitted
C6_Witness == called = "play" /\ outcome = "displayed" /\ ret = PyTrue /\ blits > 0

\* C7: stop() leaves the session finished whatever its state; afterwards every
\* play() returns a false value without asking the decoder or blitting; and a
\* finished session stays finished.
C7_StopIsTerminal ==
    [][/\ called' = "stop" => player'.finished
       /\ player.finished => player'.finished
       /\ (called' = "play" /\ player.finished) =>
             (/\ ~Truthy(ret')
              /\ outcome' = "noplayer"
              /\ UNCHANGED <<player, fetched, blits, shown, screen, closeCalls>>)]_vars

\* play() has been called on a session that stop() finished while a frame was
\* pending or awaited
C7_Witness ==
    called = "play" /\ endedBy = "stop" /\ outcome = "noplayer" /\ player.finished

\* C8: a second stop() changes nothing, and the decoder of a session is
\* closed exactly once, however often and whenever stop() is called.
C8_StopIdempotent ==
    /\ [][(called' = "stop" /\ player.finished) =>
             UNCHANGED <<player, closeCalls, screen, fetched, blits, shown>>]_vars
    /\ [](closeCalls[1] = (IF player.finished THEN 1 ELSE 0))

\* stop() has been called on a session that end-of-stream or a render error
\* had already stopped
C8_Witness ==
    called = "stop" /\ endedBy \in {"eof", "error"} /\ closeCalls[1] = 1

\* C9: when the conversion or rendering of the pending frame fails, play()
\* leaves the session finished, its decoder closed once and its frame and
\* surface references dropped, returns a false value and raises nothing: main
\* is still in its loop (or leaves it because of a quit event), flips
\* nothing for that tick, and its next session step drops the player.
C9_RenderFailureEndsSessionOnly ==
    /\ [](outcome = "error" =>
            /\ player # None /\ player.finished
            /\ player.player = None /\ player.image = None /\ player.surface = None
            /\ closeCalls[opened] = 1
            /\ ~Truthy(ret)
            /\ endedBy = "error"
            /\ pc \in {"loop", "exited"}
            /\ pc = "exited" => done
            /\ ~flipped)
    /\ [][(pc = "loop" /\ player # None /\ player.finished /\ batch' = 0 /\ now' = now)
            => player' = None]_vars

\* a failing conversion has ended a session inside the running loop
C9_Witness == outcome = "error" /\ fault /\ pc = "loop" /\ opened >= 1

\* C10: a frame whose pixel format is not a key of _fmt_map is converted with
\* 'RGB', so the display step fails only when the conversion or the rendering
\* itself fails.
C10_UnknownFormatFallsBack ==
    outcome = "error" => fault

\* a session is playing: main holds one and it has not finished
Playing == player # None /\ ~player.finished

\* C11: every Return event acts: it stops the session that is playing, and
\* whenever none is playing it calls random_music to start one (a new
\* VideoPlayer, or the not-found error when there is no music).
C11_EveryEnterActs ==
    [][EvEnter =>
          IF Playing
          THEN player'.finished /\ closeCalls'[opened] = 1
          ELSE \/ (raised' = NoExc /\ opened' = opened + 1 /\ player' = NewVideoPlayer(opened'))
               \/ (DOMAIN Music = {} /\ raised' = "FileNotFoundError" /\ player' = None)]_vars

\* C12: a tick never leaves a finished session behind unless that tick's own
\* play() finished it, and the session step that finds the session finished
\* drops it, redraws the background (when there is one to draw) and updates
\* the display; so main is idle again at the end of the tick after the one
\* that finished the session, as long as the loop is still running.
C12_FinishedSessionIsDropped ==
    [][TickStep =>
          /\ (player # None /\ player.finished) =>
                /\ player' = None
                /\ raised' = NoExc =>
                      /\ flipped' /\ dirty' = PyFalse
                      /\ pc' = (IF done THEN "exited" ELSE "loop")
                      /\ Bgs # {} => (screen'.top = None /\ screen'.bg = bgDrawn'
                                      /\ bgDrawn' \in Bgs)
          /\ (player' # None /\ player'.finished) =>
                (Playing /\ called' = "play" /\ outcome' \in {"eof", "error"})]_vars

\* a session that reached end-of-stream has been dropped, the background
\* redrawn and the display updated, and the loop runs on
C12_Witness ==
    /\ pc = "loop" /\ player = None /\ opened >= 1 /\ endedBy = "eof"
    /\ flipped /\ screen.top = None /\ screen.bg # None

\* C13: Return while idle with no music at all: random_music raises the
\* not-found error, main catches it and keeps looping with no session, no
\* decoder and an unchanged _last_music.
C13_NoMusicIsNotFatal ==
    [][(EvEnter /\ player = None /\ DOMAIN Music = {}) =>
          /\ raised' = "FileNotFoundError"
          /\ player' = None /\ opened' = opened
          /\ pc' = "loop"
          /\ last_music' = last_music
          /\ UNCHANGED <<closeCalls, screen, done, dirty>>]_vars

\* the not-found error has been caught inside the running loop
C13_Witness ==
    /\ raised = "FileNotFoundError" /\ pc = "loop" /\ batch >= 1
    /\ player = None /\ opened = 0 /\ last_music = None /\ DOMAIN Music = {}

\* C14: a random_background call (at start-up or on left-click/Space) that
\* finds the backgrounds directory missing, or no background in it, raises
\* nothing, leaves the screen and _current_background alone, and main runs on.
C14_MissingOrEmptyIsNoOp ==
    [][((Startup \/ EvBackground) /\ (~disk[Backgrounds].isdir \/ Bgs = {})) =>
          /\ raised' = NoExc
          /\ pc' = "loop"
          /\ UNCHANGED <<screen, current_background>>]_vars

\* C15: with exactly one entry in the catalog the selection ends on that entry
\* whatever the memory holds (the entry itself included), and every call made
\* so far has returned, or drawn, it.
C15_SingleEntryAlwaysSelected ==
    /\ Cardinality(DOMAIN Music) = 1 =>
          /\ \A m \in MusicMemory : MusicChoices(Music, m) = DOMAIN Music
          /\ musicRet # None => musicRet \in {Music[v] : v \in DOMAIN Music}
    /\ Cardinality(Bgs) = 1 =>
          /\ \A m \in BgMemory : BgChoices(Bgs, m) = Bgs
          /\ bgDrawn # None => bgDrawn \in Bgs

\* the only video and the only background have each been selected twice in a row
C15_Witness ==
    /\ Cardinality(DOMAIN Music) = 1 /\ musicRepeat = "same"
    /\ Cardinality(Bgs) = 1 /\ bgRepeat = "same" /\ current_background \in Bgs

\* C16: left-click/Space draws a background again and does not touch the
\* session: the object main holds, its decoder, pending frame, deadline and
\* finished flag, the frames fetched, and _last_music are as before.
C16_RedrawLeavesSessionAlone ==
    [][EvBackground =>
          /\ UNCHANGED <<player, closeCalls, opened, fetched, due, endedBy, last_music>>
          /\ (raised' = NoExc /\ Bgs # {}) =>
                /\ screen' = [bg |-> current_background', top |-> None]
                /\ current_background' \in Bgs
                /\ dirty' = PyTrue]_vars

\* a background has been drawn over the frame of a session that plays on
C16_Witness ==
    /\ Playing /\ blits > 0 /\ screen.top = None /\ screen.bg # None
    /\ batch >= 1 /\ dirty = PyTrue /\ Pending

\* C17: the session step of a tick with a playing session updates the display
\* exactly when its play() displayed a frame, whether or not a redraw was
\* requested in the tick's events.
C17_FlipIffFrameDisplayed ==
    [][(TickStep /\ Playing) =>
          /\ called' = "play"
          /\ flipped' <=> outcome' = "displayed"
          /\ flipped' <=> blits' = blits + 1
          /\ dirty' = PyFalse]_vars

\* a tick ended without a display update although a background was drawn
\* over the session's last frame since that frame was shown
C17_Witness ==
    /\ batch = 0 /\ called = "play" /\ ~flipped /\ Playing
    /\ blits > 0 /\ screen.top = None /\ screen.bg # None

\* C18: a session with no pending frame holds no deadline.
C18_NoStaleDeadline ==
    (player # None /\ player.image = None) => player.wait = 0

\* C19: once main has left its loop no decoder is open.
C19_NoOpenDecoderAfterExit ==
    pc = "exited" => OpenDecoders = {}

\* C20: a catalog of two or more entries has, for every value of the memory,
\* an entry the loop accepts; a selector that has entered its `while True`
\* loop has one, and under fair random choice the loop ends.
C20_LoopsTerminate ==
    /\ [](Cardinality(DOMAIN Music) >= 2 =>
            \A m \in MusicMemory \cup MusicNames :
               \E video \in DOMAIN Music : LoopAccepts(video, m))
    /\ [](Cardinality(Bgs) >= 2 =>
            \A m \in BgMemory : \E bg \in Bgs : LoopAccepts(bg, m))
    /\ [](picking = "music" => \E video \in DOMAIN Music : LoopAccepts(video, last_music))
    /\ [](picking = "background" => \E bg \in Bgs : LoopAccepts(bg, current_background))
    /\ (picking # "none") ~> (picking = "none")

\* the loop of random_background rejected the background on display, drew
\* again and ended on another one
C20_Witness ==
    /\ picking = "none" /\ pick # None /\ pick \in Bgs
    /\ current_background \in Bgs /\ current_background # pick /\ bgRepeat = "differs"

====
